---- MODULE Spec2Model ----
(***************************************************************************)
(* Session and API-client lifecycle of the admin panel (services/api):     *)
(* the sessionStorage record under AUTH_KEY, the module-level singletons   *)
(* templateApi / userApi / jobApi / alertApi, the wall clock, and the      *)
(* pages that consume them.                                                *)
(***************************************************************************)
EXTENDS Integers, Sequences, FiniteSets, Bags

\* The wall clock runs over 0..MaxTime (milliseconds, abstracted).
MaxTime == 2

(***************************************************************************)
(* JavaScript values                                                       *)
(***************************************************************************)
Undefined == [kind |-> "undefined"]
Null == [kind |-> "null"]
Str(s) == [kind |-> "string", s |-> s]
\* A string holding an ISO timestamp that denotes the instant ms.
IsoStr(ms) == [kind |-> "string", s |-> "iso-timestamp", ms |-> ms]
\* A JSON number (the only non-object, non-null JSON value that is needed).
Num == [kind |-> "number"]
Void == [kind |-> "void"]

\* JavaScript truthiness of the values above: undefined, null and the empty
\* string are falsy, every other string, every object is truthy.
Truthy(v) ==
  CASE v.kind = "undefined" -> FALSE
    [] v.kind = "null" -> FALSE
    [] v.kind = "string" -> v.s # ""
    [] OTHER -> TRUE

\* `${v}` in a template literal.
TemplateLiteral(v) ==
  CASE v.kind = "undefined" -> "undefined"
    [] v.kind = "null" -> "null"
    [] v.kind = "string" -> v.s
    [] OTHER -> "[object Object]"

\* new Date(v): a date is either valid, with a time value, or Invalid Date (NaN).
NewDate(v) ==
  IF v.kind = "string" /\ "ms" \in DOMAIN v
    THEN [valid |-> TRUE, ms |-> v.ms]
    ELSE [valid |-> FALSE, ms |-> 0]

\* new Date(): the current instant.
DateNow(t) == [valid |-> TRUE, ms |-> t]

\* a < b on two dates: a comparison with NaN is false.
DateLess(a, b) == a.valid /\ b.valid /\ a.ms < b.ms

(***************************************************************************)
(* Tokens, login responses, resource families                              *)
(***************************************************************************)
Tokens == {"tA", "tB"}
ExpiryTimes == {1}

\* The values a login response can carry in expires_at: a timestamp, a string
\* that is no date, or nothing at all (no validation is done on the response).
ExpiryValues == {IsoStr(ms) : ms \in ExpiryTimes} \cup {Str("not-a-date"), Undefined}

UserOf(tok) == IF tok = "tA" THEN "u1" ELSE "u2"
PermissionsOf(tok) == IF tok = "tA" THEN <<"read">> ELSE <<"read", "write">>

LoginResponses ==
  { [token |-> Str(tok), user |-> UserOf(tok), permissions |-> PermissionsOf(tok),
     expires_at |-> e] : tok \in Tokens, e \in ExpiryValues }

Families == {"Template", "User", "Job", "Alert"}

NotInitialized(f) == f \o " API not initialized"

(***************************************************************************)
(* JSON                                                                    *)
(***************************************************************************)
\* A key of a JSON text that is not there.
Absent == [kind |-> "absent"]

\* JSON.stringify of the object literal of saveAuth, a non-empty string: a
\* property whose value is undefined is left out of the text.
JsonStringify(o) ==
  [kind |-> "string", s |-> "{...}", form |-> "object",
   token |-> o.token, user |-> o.user, permissions |-> o.permissions,
   expires_at |-> IF o.expires_at.kind = "undefined" THEN Absent ELSE o.expires_at]

\* JSON.parse: throws SyntaxError on text that is not JSON; a key that is not in
\* the text reads as undefined on the parsed object.
JsonParse(text) ==
  CASE text.form = "object" ->
         [threw |-> FALSE,
          value |-> [kind |-> "object", token |-> text.token, user |-> text.user,
                     permissions |-> text.permissions,
                     expires_at |-> IF text.expires_at.kind = "absent"
                                      THEN Undefined ELSE text.expires_at]]
    [] text.form = "null" -> [threw |-> FALSE, value |-> Null]
    [] text.form = "number" -> [threw |-> FALSE, value |-> Num]
    [] OTHER -> [threw |-> TRUE, value |-> Undefined]

\* Texts under the session key that saveAuth never writes.
MalformedTexts ==
  { [kind |-> "string", s |-> "", form |-> "empty"],
    [kind |-> "string", s |-> "not json", form |-> "garbage"],
    [kind |-> "string", s |-> "null", form |-> "null"],
    [kind |-> "string", s |-> "42", form |-> "number"] }

(***************************************************************************)
(* State                                                                   *)
(***************************************************************************)
VARIABLES
  storage,   \* sessionStorage: a function from the keys that are set to their text
  api,       \* the module-level singletons, by family: Null or a client object
  now,       \* the wall clock
  route,     \* the page that is mounted
  last,      \* the most recent call: its name, family, argument and result
  net,       \* the calls that await the response to their HTTP request, a bag
  held,      \* the client a caller got from a get and still holds, or Null
  ui         \* the state of the mounted page that responses are written to

vars == <<storage, api, now, route, last, net, held, ui>>

AUTH_KEY == "admin_auth"

\* sessionStorage.getItem / setItem / removeItem
getItem(st, k) == IF k \in DOMAIN st THEN st[k] ELSE Null
setItem(st, k, text) == [x \in DOMAIN st \cup {k} |-> IF x = k THEN text ELSE st[x]]
removeItem(st, k) == [x \in DOMAIN st \ {k} |-> st[x]]

\* The record of a call. news is the number of resource clients the call
\* constructed: a singleton is the same instance as before exactly when no
\* constructor ran in between.
\* found is the part of the state the call works on, as it was on entry.
Call(name, fam, arg, found, ret, news) ==
  [name |-> name, fam |-> fam, arg |-> arg, found |-> found, ret |-> ret, news |-> news]

\* What a call found on entry: the text under the session key and the
\* singletons (clearAuth, getAuth, the pages), the text alone (saveAuth), the
\* singleton of its family (get, init, clear), or nothing it depends on.
Found(st, a) == [kind |-> "found", data |-> getItem(st, AUTH_KEY), api |-> a]
FoundItem(st) == [kind |-> "found", data |-> getItem(st, AUTH_KEY)]
FoundSingleton(a, f) == [kind |-> "found", singleton |-> a[f]]
FoundNothing == [kind |-> "found"]

Throw(message) == [kind |-> "throw", message |-> message]

(***************************************************************************)
(* API client factory and resource clients                                 *)
(***************************************************************************)
\* createApiClient(token): the headers are fixed at construction.
createApiClient(token) ==
  [baseURL |-> "/api/v1/admin", Authorization |-> "Bearer " \o TemplateLiteral(token)]

\* new TemplateApi(token), new UserApi(token), new JobApi(token), new AlertApi(token)
NewApi(f, token) == [kind |-> "client", fam |-> f, client |-> createApiClient(token)]

\* A request that reads the token of the singleton that is current when it is
\* sent.
RequestOf_CurrentSingleton(c, t) ==
  [kind |-> "request", fam |-> c.fam,
   Authorization |-> IF api[c.fam] # Null THEN api[c.fam].client.Authorization
                                          ELSE c.client.Authorization,
   at |-> t]

\* The request a method of a resource client starts at time t: it carries the
\* headers its axios instance was created with.
RequestOf(c, t) ==
  [kind |-> "request", fam |-> c.fam, Authorization |-> c.client.Authorization, at |-> t]

(***************************************************************************)
(* Resource client singletons                                              *)
(***************************************************************************)
\* getTemplateApi / getUserApi / getJobApi / getAlertApi on the singletons a:
\* whether it constructs, the singleton it leaves, and what it returns or throws.
\* A get that builds a client whenever it is handed a token.
getApiConstructs_OnAnyToken(a, f, token) == Truthy(token)

\* A get that tests the token against undefined instead of for truthiness.
getApiConstructs_OnDefined(a, f, token) == ~Truthy(a[f]) /\ token.kind # "undefined"

\* A get that builds a new client when it is handed another token than the one
\* of the singleton.
getApiConstructs_OnNewToken(a, f, token) ==
  /\ Truthy(token)
  /\ \/ ~Truthy(a[f])
     \/ a[f].client.Authorization # createApiClient(token).Authorization

getApiConstructs(a, f, token) == ~Truthy(a[f]) /\ Truthy(token)

getApiSingleton(a, f, token) ==
  IF getApiConstructs(a, f, token) THEN NewApi(f, token) ELSE a[f]

getApiResult(a, f, token) ==
  IF ~Truthy(getApiSingleton(a, f, token))
    THEN Throw(NotInitialized(f))
    ELSE getApiSingleton(a, f, token)

getApi(f, token) ==
  /\ api' = [api EXCEPT ![f] = getApiSingleton(api, f, token)]
  /\ last' = Call("getApi", f, token, FoundSingleton(api, f), getApiResult(api, f, token),
                  IF getApiConstructs(api, f, token) THEN 1 ELSE 0)
  /\ UNCHANGED <<storage, now, route, net, held, ui>>

\* An init that keeps a singleton that is already there.
initApiOf_KeepsOld(a, f, token) ==
  IF Truthy(a[f]) THEN a ELSE [a EXCEPT ![f] = NewApi(f, token)]

\* initTemplateApi / initUserApi / initJobApi / initAlertApi
initApiOf(a, f, token) == [a EXCEPT ![f] = NewApi(f, token)]

initApi(f, token) ==
  /\ api' = initApiOf(api, f, token)
  /\ last' = Call("initApi", f, token, FoundSingleton(api, f), Void, 1)
  /\ UNCHANGED <<storage, now, route, net, held, ui>>

\* clearTemplateApi / clearUserApi / clearJobApi / clearAlertApi
clearApiOf(a, f) == [a EXCEPT ![f] = Null]

clearApi(f) ==
  /\ api' = clearApiOf(api, f)
  /\ last' = Call("clearApi", f, Undefined, FoundSingleton(api, f), Void, 0)
  /\ UNCHANGED <<storage, now, route, net, held, ui>>

(***************************************************************************)
(* Session storage helpers                                                 *)
(***************************************************************************)
saveAuthItem(data) ==
  JsonStringify([token |-> data.token, user |-> data.user,
                 permissions |-> data.permissions, expires_at |-> data.expires_at])

\* A save that keeps a record that is already there.
saveAuthStorage_KeepsOld(st, data) ==
  IF AUTH_KEY \in DOMAIN st THEN st ELSE setItem(st, AUTH_KEY, saveAuthItem(data))

saveAuthStorage(st, data) == setItem(st, AUTH_KEY, saveAuthItem(data))

saveAuth(data) ==
  /\ storage' = saveAuthStorage(storage, data)
  /\ last' = Call("saveAuth", "", data, FoundItem(storage), Void, 0)
  /\ UNCHANGED <<api, now, route, net, held, ui>>

\* A removal that leaves an empty item where it found none.
clearAuthStorage_Toggles(st) ==
  IF AUTH_KEY \in DOMAIN st
    THEN removeItem(st, AUTH_KEY)
    ELSE setItem(st, AUTH_KEY, [kind |-> "string", s |-> "", form |-> "empty"])

\* The teardown of clearAuth, on the storage and on the singletons.
clearAuthStorage(st) == removeItem(st, AUTH_KEY)

\* A teardown that predates the Alert family.
clearAuthApis_SkipsAlert(a) ==
  clearApiOf(clearApiOf(clearApiOf(a, "Template"), "User"), "Job")

\* A clearAuth that leaves the job singleton.
clearAuthApis_SkipsJob(a) ==
  clearApiOf(clearApiOf(clearApiOf(a, "Template"), "User"), "Alert")

clearAuthApis(a) ==
  clearApiOf(clearApiOf(clearApiOf(clearApiOf(a, "Template"), "User"), "Job"), "Alert")

clearAuth ==
  /\ storage' = clearAuthStorage(storage)
  /\ api' = clearAuthApis(api)
  /\ last' = Call("clearAuth", "", Undefined, Found(storage, api), Void, 0)
  /\ UNCHANGED <<now, route, net, held, ui>>

\* parsed.expires_at: reading a property of null throws a TypeError, of a number
\* gives undefined.
ExpiresAtOf(parsed) ==
  CASE parsed.kind = "null" -> [threw |-> TRUE, value |-> Undefined]
    [] parsed.kind = "object" -> [threw |-> FALSE, value |-> parsed.expires_at]
    [] OTHER -> [threw |-> FALSE, value |-> Undefined]

\* An expiry check that also rejects the instant of expiry itself.
IsExpired_Inclusive(exp, t) ==
  NewDate(exp).valid /\ NewDate(exp).ms <= t

\* new Date(parsed.expires_at) < new Date()
IsExpired(exp, t) == DateLess(NewDate(exp), DateNow(t))

\* getAuth at time t, as the value it returns and whether it runs clearAuth.
getAuthOutcome(st, t) ==
  LET data == getItem(st, AUTH_KEY)
      parsed == JsonParse(data)
      exp == ExpiresAtOf(parsed.value)
  IN IF ~Truthy(data) THEN [ret |-> Null, clears |-> FALSE]
     ELSE IF parsed.threw \/ exp.threw THEN [ret |-> Null, clears |-> FALSE]
     ELSE IF IsExpired(exp.value, t) THEN [ret |-> Null, clears |-> TRUE]
     ELSE [ret |-> parsed.value, clears |-> FALSE]

\* A getAuth that removes the record it reads, expired or not.
getAuthStorage_RemovesOnRead(st, t) == clearAuthStorage(st)

getAuthStorage(st, t) ==
  IF getAuthOutcome(st, t).clears THEN clearAuthStorage(st) ELSE st

\* An expiry check that removes the record and leaves the singletons alone.
getAuthApis_KeepsClients(st, a, t) == a

\* A getAuth that nulls the singletons whenever it returns null.
getAuthApis_ClearsOnNull(st, a, t) ==
  IF getAuthOutcome(st, t).ret = Null THEN clearAuthApis(a) ELSE a

getAuthApis(st, a, t) ==
  IF getAuthOutcome(st, t).clears THEN clearAuthApis(a) ELSE a

getAuth ==
  /\ storage' = getAuthStorage(storage, now)
  /\ api' = getAuthApis(storage, api, now)
  /\ last' = Call("getAuth", "", Undefined, Found(storage, api), getAuthOutcome(storage, now).ret, 0)
  /\ UNCHANGED <<now, route, net, held, ui>>

(***************************************************************************)
(* Resource client methods and the clock                                   *)
(***************************************************************************)
\* A method of the resource client the last call returned (listTemplates,
\* listUsers, listJobs, listAlerts, ...) starts one request.
request ==
  /\ last.ret.kind = "client"
  /\ last' = Call("request", last.ret.fam, last.ret, FoundNothing, RequestOf(last.ret, now), 0)
  /\ UNCHANGED <<storage, api, now, route, net, held, ui>>

Tick ==
  /\ now < MaxTime
  /\ now' = now + 1
  /\ last' = Call("tick", "", Undefined, FoundNothing, Void, 0)
  /\ UNCHANGED <<storage, api, route, net, held, ui>>

(***************************************************************************)
(* HTTP: what a request settles with, and the calls that await it          *)
(***************************************************************************)
\* The most calls that await a response at the same time.
MaxInFlight == 2

Bool(b) == [kind |-> "boolean", b |-> b]

\* The statuses of an error response, and what its body carries as message:
\* nothing, an empty string or a text.
Statuses == {401, 500}
Messages == {Undefined, Str(""), Str("quota exceeded")}

\* What axios rejects with: an AxiosError that has a response, an AxiosError
\* that has none (the network failed), or an error that is no AxiosError.
ResponseError(status, message) ==
  [kind |-> "error", axios |-> TRUE,
   response |-> [kind |-> "object", status |-> status, message |-> message]]
NetworkError == [kind |-> "error", axios |-> TRUE, response |-> Undefined]
OtherError == [kind |-> "error", axios |-> FALSE, response |-> Undefined]

Errors ==
  {ResponseError(st, m) : st \in Statuses, m \in Messages} \cup {NetworkError, OtherError}

\* A response with a success status: response.data.data is its payload.
Ok(data) == [kind |-> "response", data |-> data]

\* error.response?.status
StatusOf(error) ==
  IF error.response.kind = "object" THEN error.response.status ELSE 0

\* error.response?.data?.message
MessageOf(error) ==
  IF error.response.kind = "object" THEN error.response.message ELSE Undefined

\* throw error: the error object that was caught, as it is.
Rethrow(error) == [kind |-> "throw", error |-> error]

\* The request of login: axios.post with a Content-Type header only.
LoginRequest(t) == [kind |-> "request", fam |-> "login", Authorization |-> "", at |-> t]

\* The request of a function that builds its own client from the token it is
\* handed: verifyToken ('/verify'), getDashboardSummary ('/dashboard/summary').
FetchRequest(path, token, t) ==
  [kind |-> "request", fam |-> path,
   Authorization |-> createApiClient(token).Authorization, at |-> t]

\* A login that looks at the message of the body before it looks at the status.
loginResult_MessageFirst(outcome) ==
  IF outcome.kind = "response" THEN outcome.data
  ELSE IF outcome.axios /\ Truthy(MessageOf(outcome))
    THEN Throw(MessageOf(outcome).s)
  ELSE IF outcome.axios /\ StatusOf(outcome) = 401
    THEN Throw("Invalid email or password")
  ELSE Rethrow(outcome)

\* login, from the settling of its request on: return response.data.data, or
\* the catch block.
loginResult(outcome) ==
  IF outcome.kind = "response" THEN outcome.data
  ELSE IF outcome.axios /\ StatusOf(outcome) = 401
    THEN Throw("Invalid email or password")
  ELSE IF outcome.axios /\ Truthy(MessageOf(outcome))
    THEN Throw(MessageOf(outcome).s)
  ELSE Rethrow(outcome)

\* A verifyToken that answers false to every error response.
verifyTokenResult_FalseOnAnyStatus(outcome) ==
  IF outcome.kind = "response" THEN Bool(TRUE)
  ELSE IF outcome.axios /\ outcome.response.kind = "object" THEN Bool(FALSE)
  ELSE Rethrow(outcome)

\* verifyToken, from the settling of its request on.
verifyTokenResult(outcome) ==
  IF outcome.kind = "response" THEN Bool(TRUE)
  ELSE IF outcome.axios /\ StatusOf(outcome) = 401 THEN Bool(FALSE)
  ELSE Rethrow(outcome)

\* A method that answers null to a 401 instead of throwing.
methodResult_Swallows401(outcome) ==
  IF outcome.kind = "response" THEN outcome.data
  ELSE IF StatusOf(outcome) = 401 THEN Null
  ELSE Rethrow(outcome)

\* A method of a resource client or a standalone fetch, from the settling of
\* its request on: return response.data.data; there is no catch, a rejection
\* of the await leaves the function as it is.
methodResult(outcome) ==
  IF outcome.kind = "response" THEN outcome.data ELSE Rethrow(outcome)

\* What a call of fn returns or throws when its request settles with outcome.
ResultOf(fn, outcome) ==
  CASE fn = "login" -> loginResult(outcome)
    [] fn = "verifyToken" -> verifyTokenResult(outcome)
    [] OTHER -> methodResult(outcome)

\* A call that awaits the response to req: the function, where the request
\* went and the Authorization header it went with, the component that awaits it
\* ("caller" when it is no page), and the page parameter it asked for.
Awaited(fn, req, owner, params) ==
  [fn |-> fn, fam |-> req.fam, Authorization |-> req.Authorization,
   owner |-> owner, params |-> params]

\* A start that sends nothing when the same request is already in flight.
startNet_Coalesces(n, c) == IF BagIn(c, n) THEN n ELSE n (+) SetToBag({c})

\* A call starts its request; a request settles.
startNet(n, c) == n (+) SetToBag({c})
settleNet(n, c) == n (-) SetToBag({c})

(***************************************************************************)
(* Specification of the core: every exported operation, in any order       *)
(***************************************************************************)
NoStorage == [k \in {} |-> Null]

\* The state a page component starts with: useState(null) or useState([]) for
\* what it loads, useState('') for its error, useState(1) for the page of a
\* list, useState(true) for its loading indicator.
InitialUi == [data |-> Null, error |-> "", page |-> 1, loading |-> TRUE]

\* setLoading(true) as a load function starts, and the setLoading(false) of
\* its finally block.
Loading(u) == [u EXCEPT !.loading = TRUE]
Finally(u) == [u EXCEPT !.loading = FALSE]

\* The module has just been loaded: every singleton is null. sessionStorage
\* outlives the module, so the session key may hold nothing or any text.
Init ==
  /\ storage \in {NoStorage} \cup {[k \in {AUTH_KEY} |-> t] : t \in MalformedTexts}
  /\ api = [f \in Families |-> Null]
  /\ now = 0
  /\ route = "Login"
  /\ last = Call("load", "", Undefined, FoundNothing, Void, 0)
  /\ net = EmptyBag
  /\ held = Null
  /\ ui = InitialUi

TokenArgs == {Undefined, Str("")} \cup {Str(tok) : tok \in Tokens}

Next ==
  \/ \E data \in LoginResponses : saveAuth(data)
  \/ getAuth
  \/ clearAuth
  \/ \E f \in Families, tok \in Tokens : initApi(f, Str(tok))
  \/ \E f \in Families, token \in TokenArgs : getApi(f, token)
  \/ \E f \in Families : clearApi(f)
  \/ request
  \/ Tick

Spec == Init /\ [][Next]_vars



(***************************************************************************)
(* Pages: JobList keeps using the jobApi singleton, AlertList builds a     *)
(* client from getAuth() for every call                                    *)
(***************************************************************************)
\* auth.token of the value getAuth returned.
TokenOf(auth) == IF auth.kind = "object" THEN auth.token ELSE Undefined

\* try { const api = getJobApi(); await api.listJobs(...) } catch { setError }:
\* the request that is started, or the error that is caught.
loadJobsResult(a, t) ==
  IF getApiResult(a, "Job", Undefined).kind = "client"
    THEN RequestOf(getApiResult(a, "Job", Undefined), t)
    ELSE getApiResult(a, "Job", Undefined)

\* The auth effect of JobList on the singletons left by its getAuth():
\* setUserEmail(auth.user.email); initJobApi(auth.token).
JobListAuthInits(auth) == Truthy(auth) /\ auth.kind = "object"

\* An auth effect that leaves the singleton as it finds it.
JobListAuthApis_NoInit(st, a, t) == getAuthApis(st, a, t)

JobListAuthApis(st, a, t) ==
  IF JobListAuthInits(getAuthOutcome(st, t).ret)
    THEN initApiOf(getAuthApis(st, a, t), "Job", TokenOf(getAuthOutcome(st, t).ret))
    ELSE getAuthApis(st, a, t)

\* The pages of a list that the user can ask for.
Pages == {1, 2}

\* What the request of a call of a page can settle with: the payload that
\* answers the call, or a failure.
ResponseTo(c) == [kind |-> "data", fn |-> c.fn, params |-> c.params]
PageOutcomes(c) == {Ok(ResponseTo(c)), NetworkError, ResponseError(401, Undefined)}

\* A page that leaves a response alone when it is not for the page it shows.
SettleUi_DropsStale(u, c, outcome, message) ==
  IF methodResult(outcome).kind = "throw" THEN [u EXCEPT !.error = message]
  ELSE IF c.params # u.page THEN u
  ELSE [u EXCEPT !.data = methodResult(outcome)]

\* The rest of a load function of a page once its await settles: the set
\* state call with the payload, or the catch block with setError(message).
SettleUi(u, c, outcome, message) ==
  IF methodResult(outcome).kind = "throw"
    THEN [u EXCEPT !.error = message]
    ELSE [u EXCEPT !.data = methodResult(outcome)]

\* loadJobs up to its await, on the page state and on the calls in flight: a
\* throw of getJobApi() goes to the catch block, a request is awaited.
loadJobsUi(u, result) ==
  IF result.kind = "throw"
    THEN Finally([Loading(u) EXCEPT !.error = "Failed to load jobs"])
    ELSE Loading(u)

loadJobsNet(n, result, p) ==
  IF result.kind = "request" THEN startNet(n, Awaited("listJobs", result, "JobList", p)) ELSE n

\* JobList mounts: the auth effect runs, then the loadJobs effect. With no
\* session the page is left at once, and with it what it awaits.
JobListMount ==
  /\ storage' = getAuthStorage(storage, now)
  /\ api' = JobListAuthApis(storage, api, now)
  /\ route' = IF Truthy(getAuthOutcome(storage, now).ret) THEN "JobList" ELSE "Login"
  /\ ui' = IF Truthy(getAuthOutcome(storage, now).ret)
             THEN loadJobsUi(InitialUi, loadJobsResult(JobListAuthApis(storage, api, now), now))
             ELSE InitialUi
  /\ net' = IF Truthy(getAuthOutcome(storage, now).ret)
              THEN loadJobsNet(EmptyBag, loadJobsResult(JobListAuthApis(storage, api, now), now), 1)
              ELSE EmptyBag
  /\ last' = Call("JobList.mount", "Job", Undefined, Found(storage, api),
                  loadJobsResult(JobListAuthApis(storage, api, now), now),
                  IF JobListAuthInits(getAuthOutcome(storage, now).ret) THEN 1 ELSE 0)
  /\ UNCHANGED <<now, held>>

\* A page, filter or search change re-runs the loadJobs effect for page p.
JobListLoadJobs(p) ==
  /\ route = "JobList"
  /\ BagCardinality(net) < MaxInFlight
  /\ ui' = loadJobsUi([ui EXCEPT !.page = p], loadJobsResult(api, now))
  /\ net' = loadJobsNet(net, loadJobsResult(api, now), p)
  /\ last' = Call("JobList.loadJobs", "Job", Undefined, FoundSingleton(api, "Job"),
                  loadJobsResult(api, now), 0)
  /\ UNCHANGED <<storage, api, now, route, held>>

\* The await of a loadJobs settles: setJobs(response.jobs), or setError, and
\* then setLoading(false).
JobListSettle(c, outcome) ==
  /\ route = "JobList"
  /\ BagIn(c, net)
  /\ c.owner = "JobList"
  /\ net' = settleNet(net, c)
  /\ ui' = Finally(SettleUi(ui, c, outcome, "Failed to load jobs"))
  /\ last' = Call("JobList.settle", "Job", outcome, [kind |-> "found", call |-> c, ui |-> ui],
                  methodResult(outcome), 0)
  /\ UNCHANGED <<storage, api, now, route, held>>

\* handleLogout: clearAuth(); navigate('/')
JobListLogout ==
  /\ route = "JobList"
  /\ storage' = clearAuthStorage(storage)
  /\ api' = clearAuthApis(api)
  /\ route' = "Login"
  /\ net' = EmptyBag
  /\ ui' = InitialUi
  /\ last' = Call("JobList.handleLogout", "", Undefined, Found(storage, api), Void, 0)
  /\ UNCHANGED <<now, held>>

\* AlertList.loadAlerts: const auth = getAuth(); if (!auth) return;
\* new AlertApi(auth.token).listAlerts(...)
loadAlertsResult(st, t) ==
  IF Truthy(getAuthOutcome(st, t).ret)
    THEN RequestOf(NewApi("Alert", TokenOf(getAuthOutcome(st, t).ret)), t)
    ELSE Void

\* AlertList mounts: the auth effect runs, then the loadAlerts effect.
AlertListMount ==
  /\ storage' = getAuthStorage(storage, now)
  /\ api' = getAuthApis(storage, api, now)
  /\ route' = IF Truthy(getAuthOutcome(storage, now).ret) THEN "AlertList" ELSE "Login"
  /\ net' = EmptyBag
  /\ ui' = InitialUi
  /\ last' = Call("AlertList.mount", "Alert", Undefined, Found(storage, api),
                  loadAlertsResult(storage, now), 0)
  /\ UNCHANGED <<now, held>>

\* A page or filter change re-runs loadAlerts.
AlertListLoadAlerts ==
  /\ route = "AlertList"
  /\ storage' = getAuthStorage(storage, now)
  /\ api' = getAuthApis(storage, api, now)
  /\ last' = Call("AlertList.loadAlerts", "Alert", Undefined, Found(storage, api),
                  loadAlertsResult(storage, now), 0)
  /\ UNCHANGED <<now, route, net, held, ui>>

\* loadDashboard(token) up to its await.
loadDashboardNet(n, token, t) ==
  startNet(n, Awaited("getDashboardSummary", FetchRequest("dashboard/summary", token, t),
                      "Dashboard", 1))

\* Dashboard mounts: getAuth(); with no session navigate('/'), else
\* loadDashboard(auth.token).
DashboardMount ==
  /\ storage' = getAuthStorage(storage, now)
  /\ api' = getAuthApis(storage, api, now)
  /\ route' = IF Truthy(getAuthOutcome(storage, now).ret) THEN "Dashboard" ELSE "Login"
  /\ ui' = InitialUi
  /\ net' = IF Truthy(getAuthOutcome(storage, now).ret)
              THEN loadDashboardNet(EmptyBag, TokenOf(getAuthOutcome(storage, now).ret), now)
              ELSE EmptyBag
  /\ last' = Call("Dashboard.mount", "", Undefined, Found(storage, api),
                  IF Truthy(getAuthOutcome(storage, now).ret)
                    THEN FetchRequest("dashboard/summary",
                                      TokenOf(getAuthOutcome(storage, now).ret), now)
                    ELSE Void, 0)
  /\ UNCHANGED <<now, held>>

\* handleRefresh: const auth = getAuth(); if (auth) loadDashboard(auth.token).
\* With no session nothing else is done: the page stays.
DashboardRefresh ==
  /\ route = "Dashboard"
  /\ BagCardinality(net) < MaxInFlight
  /\ storage' = getAuthStorage(storage, now)
  /\ api' = getAuthApis(storage, api, now)
  /\ net' = IF Truthy(getAuthOutcome(storage, now).ret)
              THEN loadDashboardNet(net, TokenOf(getAuthOutcome(storage, now).ret), now)
              ELSE net
  /\ last' = Call("Dashboard.handleRefresh", "", Undefined, Found(storage, api),
                  IF Truthy(getAuthOutcome(storage, now).ret)
                    THEN FetchRequest("dashboard/summary",
                                      TokenOf(getAuthOutcome(storage, now).ret), now)
                    ELSE Void, 0)
  /\ ui' = IF Truthy(getAuthOutcome(storage, now).ret) THEN Loading(ui) ELSE ui
  /\ UNCHANGED <<now, route, held>>

\* The await of a loadDashboard settles: setSummary(data), or setError.
DashboardSettle(c, outcome) ==
  /\ route = "Dashboard"
  /\ BagIn(c, net)
  /\ c.owner = "Dashboard"
  /\ net' = settleNet(net, c)
  /\ ui' = Finally(SettleUi(ui, c, outcome, "Failed to load dashboard"))
  /\ last' = Call("Dashboard.settle", "", outcome, [kind |-> "found", call |-> c, ui |-> ui],
                  methodResult(outcome), 0)
  /\ UNCHANGED <<storage, api, now, route, held>>

\* handleLogout: clearAuth(); navigate('/')
DashboardLogout ==
  /\ route = "Dashboard"
  /\ storage' = clearAuthStorage(storage)
  /\ api' = clearAuthApis(api)
  /\ route' = "Login"
  /\ net' = EmptyBag
  /\ ui' = InitialUi
  /\ last' = Call("Dashboard.handleLogout", "", Undefined, Found(storage, api), Void, 0)
  /\ UNCHANGED <<now, held>>

\* The effect of TemplateEdit on the singletons left by its getAuth():
\* initTemplateApi(auth.token).
TemplateEditAuthApis(st, a, t) ==
  IF Truthy(getAuthOutcome(st, t).ret)
    THEN initApiOf(getAuthApis(st, a, t), "Template", TokenOf(getAuthOutcome(st, t).ret))
    ELSE getAuthApis(st, a, t)

\* loadCategories up to its await: getTemplateApi(), api.getCategories(); a
\* throw is caught and logged.
loadCategoriesResult(a, t) ==
  IF getApiResult(a, "Template", Undefined).kind = "client"
    THEN RequestOf(getApiResult(a, "Template", Undefined), t)
    ELSE getApiResult(a, "Template", Undefined)

\* TemplateEdit mounts on /templates/new: getAuth(); with no session
\* navigate('/') and return, else initTemplateApi(auth.token), loadCategories().
\* A new template has nothing to load: loading starts as useState(!isNew).
TemplateEditMount ==
  /\ storage' = getAuthStorage(storage, now)
  /\ api' = TemplateEditAuthApis(storage, api, now)
  /\ route' = IF Truthy(getAuthOutcome(storage, now).ret) THEN "TemplateEdit" ELSE "Login"
  /\ ui' = IF Truthy(getAuthOutcome(storage, now).ret) THEN Finally(InitialUi) ELSE InitialUi
  /\ net' = IF /\ Truthy(getAuthOutcome(storage, now).ret)
                /\ loadCategoriesResult(TemplateEditAuthApis(storage, api, now), now).kind = "request"
              THEN startNet(EmptyBag,
                     Awaited("getCategories",
                             loadCategoriesResult(TemplateEditAuthApis(storage, api, now), now),
                             "TemplateEdit", 1))
              ELSE EmptyBag
  /\ last' = Call("TemplateEdit.mount", "Template", Undefined, Found(storage, api),
                  IF Truthy(getAuthOutcome(storage, now).ret)
                    THEN loadCategoriesResult(TemplateEditAuthApis(storage, api, now), now)
                    ELSE Void,
                  IF Truthy(getAuthOutcome(storage, now).ret) THEN 1 ELSE 0)
  /\ UNCHANGED <<now, held>>

\* The await of loadCategories settles: setCategories(cats), or the error is
\* logged and the page state stays.
TemplateEditSettle(c, outcome) ==
  /\ route = "TemplateEdit"
  /\ BagIn(c, net)
  /\ c.owner = "TemplateEdit"
  /\ net' = settleNet(net, c)
  /\ ui' = SettleUi(ui, c, outcome, ui.error)
  /\ last' = Call("TemplateEdit.settle", "Template", outcome,
                  [kind |-> "found", call |-> c, ui |-> ui], methodResult(outcome), 0)
  /\ UNCHANGED <<storage, api, now, route, held>>

\* The user opens "/", the login page.
VisitLogin ==
  /\ route # "Login"
  /\ route' = "Login"
  /\ net' = EmptyBag
  /\ ui' = InitialUi
  /\ last' = Call("navigate", "", Str("/"), FoundNothing, Void, 0)
  /\ UNCHANGED <<storage, api, now, held>>

\* A login succeeds on the login page and the session is saved.
LoginSuccess(data) ==
  /\ route = "Login"
  /\ saveAuth(data)

InitPages ==
  /\ storage = NoStorage
  /\ api = [f \in Families |-> Null]
  /\ now = 0
  /\ route = "Login"
  /\ last = Call("load", "", Undefined, FoundNothing, Void, 0)
  /\ net = EmptyBag
  /\ held = Null
  /\ ui = InitialUi

NextPages ==
  \/ \E data \in LoginResponses : LoginSuccess(data)
  \/ JobListMount
  \/ \E p \in Pages : JobListLoadJobs(p)
  \/ \E c \in BagToSet(net) : \E outcome \in PageOutcomes(c) : JobListSettle(c, outcome)
  \/ JobListLogout
  \/ AlertListMount
  \/ AlertListLoadAlerts
  \/ DashboardMount
  \/ DashboardRefresh
  \/ \E c \in BagToSet(net) : \E outcome \in PageOutcomes(c) : DashboardSettle(c, outcome)
  \/ DashboardLogout
  \/ TemplateEditMount
  \/ \E c \in BagToSet(net) : \E outcome \in PageOutcomes(c) : TemplateEditSettle(c, outcome)
  \/ VisitLogin
  \/ Tick

SpecPages == InitPages /\ [][NextPages]_vars

(***************************************************************************)
(* Callers of the core: the functions that await a request, the requests   *)
(* in flight, and a caller that keeps the client it got                    *)
(***************************************************************************)
Credentials == [kind |-> "object", email |-> "admin@example.com", password |-> "secret"]

\* The payload of a successful response that is no login response.
Payload == Str("payload")

\* The login responses whose expires_at is a date.
DatedLogins == {d \in LoginResponses : NewDate(d.expires_at).valid}

\* What the request of a call of fn can settle with. Only login looks at the
\* message of an error response.
OutcomesOf(fn) ==
  IF fn = "login"
    THEN Errors \cup {Ok(d) : d \in DatedLogins}
    ELSE {Ok(Payload), NetworkError, OtherError} \cup
         {ResponseError(st, Undefined) : st \in Statuses}

\* The families a caller works with.
CallerFamilies == {"Job"}

\* login(email, password) up to its await: axios.post is called once.
login ==
  /\ BagCardinality(net) < MaxInFlight
  /\ net' = startNet(net, Awaited("login", LoginRequest(now), "caller", Undefined))
  /\ last' = Call("login", "", Credentials, FoundNothing, LoginRequest(now), 0)
  /\ UNCHANGED <<storage, api, now, route, held, ui>>

\* verifyToken(token) up to its await: createApiClient(token), client.get('/verify').
verifyToken(token) ==
  /\ BagCardinality(net) < MaxInFlight
  /\ net' = startNet(net, Awaited("verifyToken", FetchRequest("verify", token, now),
                                  "caller", Undefined))
  /\ last' = Call("verifyToken", "", token, FoundNothing,
                  FetchRequest("verify", token, now), 0)
  /\ UNCHANGED <<storage, api, now, route, held, ui>>

\* getDashboardSummary(token) up to its await.
getDashboardSummary(token) ==
  /\ BagCardinality(net) < MaxInFlight
  /\ net' = startNet(net, Awaited("getDashboardSummary",
                                  FetchRequest("dashboard/summary", token, now),
                                  "caller", Undefined))
  /\ last' = Call("getDashboardSummary", "", token, FoundNothing,
                  FetchRequest("dashboard/summary", token, now), 0)
  /\ UNCHANGED <<storage, api, now, route, held, ui>>

\* const api = getJobApi(token): the caller keeps what the get returned.
getApiAndKeep(f, token) ==
  /\ api' = [api EXCEPT ![f] = getApiSingleton(api, f, token)]
  /\ held' = IF getApiResult(api, f, token).kind = "client"
               THEN getApiResult(api, f, token) ELSE held
  /\ last' = Call("getApi", f, token, FoundSingleton(api, f), getApiResult(api, f, token),
                  IF getApiConstructs(api, f, token) THEN 1 ELSE 0)
  /\ UNCHANGED <<storage, now, route, net, ui>>

\* A method of the client the caller holds, up to its await: this.client.get
\* (or post, put, delete) is called once.
callMethod ==
  /\ held # Null
  /\ BagCardinality(net) < MaxInFlight
  /\ net' = startNet(net, Awaited("method", RequestOf(held, now), "caller", Undefined))
  /\ last' = Call("method", held.fam, held, FoundNothing, RequestOf(held, now), 0)
  /\ UNCHANGED <<storage, api, now, route, held, ui>>

\* The request of an awaited call settles and the call returns or throws.
settle(c, outcome) ==
  /\ BagIn(c, net)
  /\ c.owner = "caller"
  /\ net' = settleNet(net, c)
  /\ last' = Call("settle", c.fn, outcome, [kind |-> "found", call |-> c],
                  ResultOf(c.fn, outcome), 0)
  /\ UNCHANGED <<storage, api, now, route, held, ui>>

NextHttp ==
  \/ \E data \in DatedLogins : saveAuth(data)
  \/ getAuth
  \/ clearAuth
  \/ \E f \in CallerFamilies, tok \in Tokens : initApi(f, Str(tok))
  \/ \E f \in CallerFamilies : clearApi(f)
  \/ \E f \in CallerFamilies, token \in {Undefined} \cup {Str(tok) : tok \in Tokens} :
       getApiAndKeep(f, token)
  \/ callMethod
  \/ login
  \/ \E tok \in Tokens : verifyToken(Str(tok))
  \/ \E tok \in Tokens : getDashboardSummary(Str(tok))
  \/ \E c \in BagToSet(net) : \E outcome \in OutcomesOf(c.fn) : settle(c, outcome)
  \/ Tick

SpecHttp == InitPages /\ [][NextHttp]_vars

(***************************************************************************)
(* UserDetailModal: the grant credits form                                 *)
(***************************************************************************)
\* A JavaScript number: NaN, or an integer.
NaN == [kind |-> "number", nan |-> TRUE, n |-> 0]
Number(n) == [kind |-> "number", nan |-> FALSE, n |-> n]

\* parseInt(s) with no radix, for a text that does not begin with 0x, given as
\* the sequence of its characters: leading white space is skipped, a sign is
\* read, then the longest run of decimal digits; what follows the digits is
\* ignored, and no digit at all gives NaN.
ParseInt(s) ==
  LET DigitChars == <<"0", "1", "2", "3", "4", "5", "6", "7", "8", "9">>
      IsDigit(c) == \E i \in DOMAIN DigitChars : DigitChars[i] = c
      DigitValue(c) == (CHOOSE i \in DOMAIN DigitChars : DigitChars[i] = c) - 1
      RECURSIVE TrimStart(_)
      TrimStart(x) == IF x # <<>> /\ Head(x) = " " THEN TrimStart(Tail(x)) ELSE x
      RECURSIVE DigitPrefix(_)
      DigitPrefix(x) ==
        IF x # <<>> /\ IsDigit(Head(x)) THEN <<Head(x)>> \o DigitPrefix(Tail(x)) ELSE <<>>
      RECURSIVE MathInt(_)
      MathInt(d) ==
        IF d = <<>> THEN 0
        ELSE 10 * MathInt(SubSeq(d, 1, Len(d) - 1)) + DigitValue(d[Len(d)])
      t == TrimStart(s)
      sign == IF t # <<>> /\ Head(t) = "-" THEN -1 ELSE 1
      rest == IF t # <<>> /\ Head(t) \in {"+", "-"} THEN Tail(t) ELSE t
  IN IF DigitPrefix(rest) = <<>> THEN NaN ELSE Number(sign * MathInt(DigitPrefix(rest)))

\* What the amount field can hold.
AmountInputs ==
  { <<>>, <<"a", "b", "c">>, <<"0">>, <<"-", "3">>, <<"7">>, <<"1", "2">>,
    <<"1", ".", "9">>, <<"0", ".", "5">>, <<" ", "+", "4">> }

\* What the reason field can hold.
ReasonInputs == {Str(""), Str("bonus")}

Toast(message, type) == [kind |-> "object", message |-> message, type |-> type]

\* The state UserDetailModal starts with.
InitialModal ==
  [creditsAmount |-> <<>>, creditsReason |-> Str(""), submitting |-> FALSE,
   toast |-> Null, loading |-> TRUE, error |-> ""]

\* A guard that turns away only what is no number.
AmountRejected_NaNOnly(amount) == amount.nan

\* isNaN(amount) || amount <= 0
AmountRejected(amount) == amount.nan \/ amount.n <= 0

\* const api = getUserApi(): the request of a method of the user client, or
\* the error that getUserApi throws.
userApiResult(a, t) ==
  IF getApiResult(a, "User", Undefined).kind = "client"
    THEN RequestOf(getApiResult(a, "User", Undefined), t)
    ELSE getApiResult(a, "User", Undefined)

\* loadUserDetail up to its await.
loadUserDetailUi(u, result) ==
  IF result.kind = "throw"
    THEN Finally([Loading(u) EXCEPT !.error = "Failed to load user details"])
    ELSE Loading(u)

loadUserDetailNet(n, result) ==
  IF result.kind = "request"
    THEN startNet(n, Awaited("getUser", result, "UserDetailModal", "u1")) ELSE n

\* onCreditsUpdated is loadUsers of UserList, up to its await.
loadUsersNet(n, result) ==
  IF result.kind = "request"
    THEN startNet(n, Awaited("listUsers", result, "UserList", 1)) ELSE n

\* onChange of the amount field and of the reason field.
setCreditsAmount(s) ==
  /\ route = "UserList"
  /\ ui' = [ui EXCEPT !.creditsAmount = s]
  /\ last' = Call("setCreditsAmount", "", [kind |-> "string", chars |-> s], FoundNothing, Void, 0)
  /\ UNCHANGED <<storage, api, now, route, net, held>>

setCreditsReason(r) ==
  /\ route = "UserList"
  /\ ui' = [ui EXCEPT !.creditsReason = r]
  /\ last' = Call("setCreditsReason", "", r, FoundNothing, Void, 0)
  /\ UNCHANGED <<storage, api, now, route, net, held>>

\* handleGrantCredits up to its await. The submit button is disabled while
\* submitting is true.
handleGrantCredits ==
  /\ route = "UserList"
  /\ ~ui.submitting
  /\ BagCardinality(net) < MaxInFlight
  /\ LET amount == ParseInt(ui.creditsAmount)
         result == userApiResult(api, now)
     IN IF AmountRejected(amount)
          THEN /\ ui' = [ui EXCEPT !.toast = Toast("Amount must be a positive number", "error")]
               /\ net' = net
               /\ last' = Call("handleGrantCredits", "User", amount, [kind |-> "found", ui |-> ui],
                               Void, 0)
          ELSE IF result.kind = "throw"
            THEN /\ ui' = [ui EXCEPT !.toast = Toast("Failed to grant credits", "error"),
                                     !.submitting = FALSE]
                 /\ net' = net
                 /\ last' = Call("handleGrantCredits", "User", amount,
                                 [kind |-> "found", ui |-> ui], result, 0)
            ELSE /\ ui' = [ui EXCEPT !.submitting = TRUE]
                 /\ net' = startNet(net, Awaited("grantCredits", result, "UserDetailModal",
                                                 [id |-> "u1", amount |-> amount,
                                                  reason |-> IF Truthy(ui.creditsReason)
                                                               THEN ui.creditsReason
                                                               ELSE Undefined]))
                 /\ last' = Call("handleGrantCredits", "User", amount,
                                 [kind |-> "found", ui |-> ui], result, 0)
  /\ UNCHANGED <<storage, api, now, route, held>>

\* The await of grantCredits settles: the success toast, the fields are
\* emptied, loadUserDetail() and onCreditsUpdated() are called; or the failure
\* toast; and then setSubmitting(false).
grantCreditsSettle(c, outcome) ==
  /\ route = "UserList"
  /\ BagIn(c, net)
  /\ c.fn = "grantCredits"
  /\ IF methodResult(outcome).kind = "throw"
       THEN /\ ui' = [ui EXCEPT !.toast = Toast("Failed to grant credits", "error"),
                                !.submitting = FALSE]
            /\ net' = settleNet(net, c)
       ELSE /\ ui' = [loadUserDetailUi(ui, userApiResult(api, now)) EXCEPT
                        !.toast = Toast([text |-> "Successfully granted ${amount} credits",
                                         amount |-> c.params.amount], "success"),
                        !.creditsAmount = <<>>,
                        !.creditsReason = Str(""),
                        !.submitting = FALSE]
            /\ net' = loadUsersNet(loadUserDetailNet(settleNet(net, c), userApiResult(api, now)),
                                   userApiResult(api, now))
  /\ last' = Call("grantCredits.settle", "User", outcome,
                  [kind |-> "found", call |-> c, ui |-> ui], methodResult(outcome), 0)
  /\ UNCHANGED <<storage, api, now, route, held>>

\* The await of loadUserDetail settles: setDetail(data) or setError, and then
\* setLoading(false).
loadUserDetailSettle(c, outcome) ==
  /\ route = "UserList"
  /\ BagIn(c, net)
  /\ c.fn = "getUser"
  /\ net' = settleNet(net, c)
  /\ ui' = Finally(IF methodResult(outcome).kind = "throw"
                     THEN [ui EXCEPT !.error = "Failed to load user details"] ELSE ui)
  /\ last' = Call("loadUserDetail.settle", "User", outcome,
                  [kind |-> "found", call |-> c, ui |-> ui], methodResult(outcome), 0)
  /\ UNCHANGED <<storage, api, now, route, held>>

\* The await of the loadUsers of the list behind the modal settles.
loadUsersSettle(c, outcome) ==
  /\ route = "UserList"
  /\ BagIn(c, net)
  /\ c.fn = "listUsers"
  /\ net' = settleNet(net, c)
  /\ last' = Call("loadUsers.settle", "User", outcome,
                  [kind |-> "found", call |-> c, ui |-> ui], methodResult(outcome), 0)
  /\ UNCHANGED <<storage, api, now, route, held, ui>>

\* UserList has mounted with a session (initUserApi(auth.token)) and a row was
\* chosen: the modal has mounted and its loadUserDetail is awaited.
InitCredits ==
  /\ \E data \in DatedLogins :
       /\ storage = saveAuthStorage(NoStorage, data)
       /\ api = initApiOf([f \in Families |-> Null], "User", data.token)
       /\ net = loadUserDetailNet(EmptyBag, RequestOf(NewApi("User", data.token), 0))
  /\ now = 0
  /\ route = "UserList"
  /\ last = Call("UserDetailModal.mount", "User", Undefined, FoundNothing, Void, 0)
  /\ held = Null
  /\ ui = InitialModal

\* What the request of a POST of a page can settle with.
PostOutcomes == {Ok(Payload), NetworkError}

NextCredits ==
  \/ \E s \in AmountInputs : setCreditsAmount(s)
  \/ \E r \in ReasonInputs : setCreditsReason(r)
  \/ handleGrantCredits
  \/ \E c \in BagToSet(net) : \E outcome \in PostOutcomes : grantCreditsSettle(c, outcome)
  \/ \E c \in BagToSet(net) : \E outcome \in PostOutcomes : loadUserDetailSettle(c, outcome)
  \/ \E c \in BagToSet(net) : \E outcome \in PostOutcomes : loadUsersSettle(c, outcome)

SpecCredits == InitCredits /\ [][NextCredits]_vars

(***************************************************************************)
(* AlertList: the list, its selection and its pagination                   *)
(***************************************************************************)
\* const [pageSize] = useState(20)
PageSize == 20

\* The alerts the backend knows and the totals it reports.
AlertIds == {"a1", "a2"}
Totals == {PageSize, PageSize + 1}
StatusFilters == {"pending", ""}

\* Math.ceil(total / pageSize)
totalPages(u) == (u.total + PageSize - 1) \div PageSize

\* The state AlertList starts with.
InitialAlerts ==
  [alerts |-> {}, total |-> 0, page |-> 1, statusFilter |-> "pending",
   selectedAlerts |-> {}, showAcknowledgeModal |-> FALSE, loading |-> TRUE, error |-> ""]

\* What the backend answers to listAlerts, and what an await can settle with.
AlertListOutcomes ==
  {Ok([kind |-> "data", alerts |-> A, total |-> n]) : A \in SUBSET AlertIds, n \in Totals}
    \cup {NetworkError}

\* loadAlerts up to its await, for the page and the filter of u: getAuth(),
\* and with a session setLoading(true) and the request of a new AlertApi.
loadAlertsUi(st, t, u) ==
  IF Truthy(getAuthOutcome(st, t).ret) THEN Loading(u) ELSE u

loadAlertsNet(st, t, n, u) ==
  IF Truthy(getAuthOutcome(st, t).ret)
    THEN startNet(n, Awaited("listAlerts", loadAlertsResult(st, t), "AlertList",
                             [page |-> u.page, page_size |-> PageSize,
                              status |-> IF u.statusFilter # "" THEN Str(u.statusFilter)
                                                                ELSE Undefined]))
    ELSE n

\* A handler that is not asynchronous changes the page state; when the page or
\* the filter is another than before, the load effect runs.
AlertsRender(name, u) ==
  /\ route = "AlertList"
  /\ IF u.page # ui.page \/ u.statusFilter # ui.statusFilter
       THEN /\ storage' = getAuthStorage(storage, now)
            /\ api' = getAuthApis(storage, api, now)
            /\ ui' = loadAlertsUi(storage, now, u)
            /\ net' = loadAlertsNet(storage, now, net, u)
       ELSE /\ ui' = u
            /\ UNCHANGED <<storage, api, net>>
  /\ last' = Call(name, "Alert", Undefined, FoundNothing, Void, 0)
  /\ UNCHANGED <<now, route, held>>

\* The modal lies over the page: the page below takes no click while it shows.
handleSelectAll ==
  /\ ~ui.showAcknowledgeModal
  /\ AlertsRender("AlertList.handleSelectAll",
       [ui EXCEPT !.selectedAlerts =
          IF Cardinality(ui.selectedAlerts) = Cardinality(ui.alerts) THEN {} ELSE ui.alerts])

handleSelectAlert(id) ==
  /\ ~ui.showAcknowledgeModal
  /\ id \in ui.alerts
  /\ AlertsRender("AlertList.handleSelectAlert",
       [ui EXCEPT !.selectedAlerts =
          IF id \in ui.selectedAlerts THEN ui.selectedAlerts \ {id}
                                      ELSE ui.selectedAlerts \cup {id}])

\* "Acknowledge" in the row of an alert.
AcknowledgeRow(id) ==
  /\ ~ui.showAcknowledgeModal
  /\ id \in ui.alerts
  /\ AlertsRender("AlertList.acknowledgeRow",
       [ui EXCEPT !.selectedAlerts = {id}, !.showAcknowledgeModal = TRUE])

\* "Acknowledge Selected (n)" above the table.
AcknowledgeSelected ==
  /\ ~ui.showAcknowledgeModal
  /\ ui.selectedAlerts # {}
  /\ ui.statusFilter = "pending"
  /\ AlertsRender("AlertList.acknowledgeSelected",
       [ui EXCEPT !.showAcknowledgeModal = TRUE])

\* "Cancel" in the modal.
AcknowledgeCancel ==
  /\ ui.showAcknowledgeModal
  /\ AlertsRender("AlertList.cancel",
       [ui EXCEPT !.showAcknowledgeModal = FALSE, !.selectedAlerts = {}])

\* The select of the status filter: setStatusFilter(value); setPage(1).
setStatusFilter(f) ==
  /\ ~ui.showAcknowledgeModal
  /\ f # ui.statusFilter
  /\ BagCardinality(net) < MaxInFlight
  /\ AlertsRender("AlertList.setStatusFilter",
       [ui EXCEPT !.statusFilter = f, !.page = 1])

\* "Previous" and "Next", shown when totalPages > 1 and disabled at the ends.
PreviousPage ==
  /\ ~ui.showAcknowledgeModal
  /\ totalPages(ui) > 1
  /\ ui.page # 1
  /\ BagCardinality(net) < MaxInFlight
  /\ AlertsRender("AlertList.previous", [ui EXCEPT !.page = IF ui.page - 1 > 1 THEN ui.page - 1 ELSE 1])

NextPage ==
  /\ ~ui.showAcknowledgeModal
  /\ totalPages(ui) > 1
  /\ ui.page # totalPages(ui)
  /\ BagCardinality(net) < MaxInFlight
  /\ AlertsRender("AlertList.next",
       [ui EXCEPT !.page = IF ui.page + 1 < totalPages(ui) THEN ui.page + 1
                                                               ELSE totalPages(ui)])

\* The x of the error banner.
DismissError ==
  /\ ~ui.showAcknowledgeModal
  /\ ui.error # ""
  /\ AlertsRender("AlertList.dismissError", [ui EXCEPT !.error = ""])

\* "Acknowledge" in the modal, up to the await: handleBatchAcknowledge for
\* more than one selected alert, handleAcknowledgeSingle of the first (or of
\* undefined, when none is selected) otherwise.
AcknowledgeIds(u) ==
  IF Cardinality(u.selectedAlerts) > 1 THEN [batch |-> TRUE, ids |-> u.selectedAlerts]
  ELSE [batch |-> FALSE, ids |-> u.selectedAlerts]

AcknowledgeConfirm ==
  /\ route = "AlertList"
  /\ ui.showAcknowledgeModal
  /\ BagCardinality(net) < MaxInFlight
  /\ storage' = getAuthStorage(storage, now)
  /\ api' = getAuthApis(storage, api, now)
  /\ net' = IF Truthy(getAuthOutcome(storage, now).ret)
              THEN startNet(net, Awaited(IF AcknowledgeIds(ui).batch THEN "acknowledgeBatch"
                                                                     ELSE "acknowledgeAlert",
                                         loadAlertsResult(storage, now), "AlertList",
                                         AcknowledgeIds(ui)))
              ELSE net
  /\ last' = Call("AlertList.acknowledge", "Alert", Undefined, FoundNothing, Void, 0)
  /\ UNCHANGED <<now, route, held, ui>>

\* The await of an acknowledge settles: the modal closes, a batch empties the
\* selection, and loadAlerts() runs; or setError.
AcknowledgeSettle(c, outcome) ==
  /\ route = "AlertList"
  /\ BagIn(c, net)
  /\ c.fn \in {"acknowledgeBatch", "acknowledgeAlert"}
  /\ IF methodResult(outcome).kind = "throw"
       THEN /\ ui' = [ui EXCEPT !.error = IF c.params.batch THEN "Failed to acknowledge alerts"
                                                            ELSE "Failed to acknowledge alert"]
            /\ net' = settleNet(net, c)
            /\ UNCHANGED <<storage, api>>
       ELSE /\ storage' = getAuthStorage(storage, now)
            /\ api' = getAuthApis(storage, api, now)
            /\ ui' = loadAlertsUi(storage, now,
                     [ui EXCEPT !.showAcknowledgeModal = FALSE,
                                !.selectedAlerts = IF c.params.batch THEN {} ELSE @])
            /\ net' = loadAlertsNet(storage, now, settleNet(net, c), ui)
  /\ last' = Call("AlertList.acknowledge.settle", "Alert", outcome, FoundNothing, Void, 0)
  /\ UNCHANGED <<now, route, held>>

\* The await of loadAlerts settles: setAlerts(data.alerts || []),
\* setTotal(data.total), or setError; then setLoading(false).
loadAlertsSettle(c, outcome) ==
  /\ route = "AlertList"
  /\ BagIn(c, net)
  /\ c.fn = "listAlerts"
  /\ net' = settleNet(net, c)
  /\ ui' = Finally(IF methodResult(outcome).kind = "throw"
                     THEN [ui EXCEPT !.error = "Failed to load alerts"]
                     ELSE [ui EXCEPT !.alerts = methodResult(outcome).alerts,
                                     !.total = methodResult(outcome).total])
  /\ last' = Call("AlertList.loadAlerts.settle", "Alert", Undefined, FoundNothing, Void, 0)
  /\ UNCHANGED <<storage, api, now, route, held>>

\* AlertList has mounted with a session: the loadAlerts of its load effect is
\* awaited.
InitAlerts ==
  /\ \E data \in {d \in DatedLogins : d.token = Str("tA")} :
       /\ storage = saveAuthStorage(NoStorage, data)
       /\ net = loadAlertsNet(saveAuthStorage(NoStorage, data), 0, EmptyBag, InitialAlerts)
  /\ api = [f \in Families |-> Null]
  /\ now = 0
  /\ route = "AlertList"
  /\ last = Call("AlertList.mount", "Alert", Undefined, FoundNothing, Void, 0)
  /\ held = Null
  /\ ui = InitialAlerts

NextAlerts ==
  \/ handleSelectAll
  \/ \E id \in AlertIds : handleSelectAlert(id)
  \/ \E id \in AlertIds : AcknowledgeRow(id)
  \/ AcknowledgeSelected
  \/ AcknowledgeCancel
  \/ AcknowledgeConfirm
  \/ \E f \in StatusFilters : setStatusFilter(f)
  \/ PreviousPage
  \/ NextPage
  \/ DismissError
  \/ \E c \in BagToSet(net) : \E outcome \in PostOutcomes : AcknowledgeSettle(c, outcome)
  \/ \E c \in BagToSet(net) : \E outcome \in AlertListOutcomes : loadAlertsSettle(c, outcome)

SpecAlerts == InitAlerts /\ [][NextAlerts]_vars

(***************************************************************************)
(* MatchingRules: loadRules with Promise.all, and the save and activate    *)
(* handlers                                                                *)
(***************************************************************************)
RuleIds == {"r1", "r2"}
Rule(id) == [kind |-> "object", id |-> id]
RuleList == [kind |-> "array", ids |-> RuleIds]

\* The state MatchingRules starts with.
InitialRules ==
  [rules |-> [kind |-> "array", ids |-> {}], activeRule |-> Null, loading |-> TRUE,
   saving |-> FALSE, error |-> "", success |-> "", formData |-> "default"]

\* getActiveMatchingRule after its await: a 404 of the backend is no error
\* but "no active rule"; every other error is thrown again.
getActiveMatchingRuleResult(outcome) ==
  IF outcome.kind = "response" THEN outcome.data
  ELSE IF outcome.axios /\ StatusOf(outcome) = 404 THEN Null
  ELSE Rethrow(outcome)

\* What a fetch of the page returns or throws when its request settles.
fetchResult(fn, outcome) ==
  IF fn = "getActiveMatchingRule" THEN getActiveMatchingRuleResult(outcome)
                                  ELSE methodResult(outcome)

\* What the request of a fetch can settle with.
FetchOutcomes(fn) ==
  CASE fn = "getMatchingRules" -> {Ok(RuleList), NetworkError}
    [] fn = "getActiveMatchingRule" ->
         {Ok(Rule("r1")), ResponseError(404, Undefined), NetworkError}
    [] fn = "createMatchingRule" -> {Ok(Rule(id)) : id \in RuleIds} \cup {NetworkError}
    [] fn = "activateMatchingRule" -> {Ok(Void), ResponseError(500, Undefined)}

\* Promise.all of two fetches, as seen from one of them: the other is still
\* pending, has fulfilled with a value, or has rejected (and with it the whole).
RulesFetch(fn, path, token, t, then) ==
  Awaited(fn, FetchRequest(path, token, t), "MatchingRules",
          [then |-> then, join |-> [kind |-> "pending"]])

\* loadRules(token) up to its await: setLoading(true) and both fetches start.
loadRulesNet(n, token, t, then) ==
  startNet(startNet(n, RulesFetch("getMatchingRules", "attribution/rules", token, t, then)),
           RulesFetch("getActiveMatchingRule", "attribution/rules/active", token, t, then))

\* The calls in flight after the fetch c of a Promise.all settles with result
\* r: the other fetch learns that c fulfilled, or that the whole has rejected.
joinNet(n, c, r) ==
  LET partner == CHOOSE p \in BagToSet(n) :
                   /\ p.fn \in {"getMatchingRules", "getActiveMatchingRule"} \ {c.fn}
                   /\ p.params = c.params
  IN IF c.params.join.kind # "pending" THEN settleNet(n, c)
     ELSE startNet(settleNet(settleNet(n, c), partner),
                   [partner EXCEPT !.params.join =
                      IF r.kind = "throw" THEN [kind |-> "rejected"]
                                          ELSE [kind |-> "fulfilled", value |-> r]])

\* The handler that awaited loadRules goes on: finally { setSaving(false) }.
afterLoadRules(u, then) == IF then = "mount" THEN u ELSE [u EXCEPT !.saving = FALSE]

\* Both fetches fulfilled: setRules, setActiveRule, setFormData for an active
\* rule, and setLoading(false).
loadRulesThen(u, rulesData, activeRuleData) ==
  Finally([u EXCEPT !.rules = rulesData, !.activeRule = activeRuleData,
                    !.formData = IF Truthy(activeRuleData) THEN activeRuleData.id ELSE @])

\* The page state after the fetch c of a loadRules settles with result r. A
\* rejection goes to catch { setError('Failed to load matching rules') } and
\* finally { setLoading(false) }.
joinUi(u, c, r) ==
  CASE c.params.join.kind = "rejected" -> u
    [] c.params.join.kind # "rejected" /\ r.kind = "throw" ->
         afterLoadRules(Finally([u EXCEPT !.error = "Failed to load matching rules"]),
                        c.params.then)
    [] c.params.join.kind = "pending" /\ r.kind # "throw" -> u
    [] c.params.join.kind = "fulfilled" /\ r.kind # "throw" ->
         afterLoadRules(IF c.fn = "getMatchingRules"
                          THEN loadRulesThen(u, r, c.params.join.value)
                          ELSE loadRulesThen(u, c.params.join.value, r),
                        c.params.then)

\* A fetch of a loadRules settles.
loadRulesSettle(c, outcome) ==
  /\ route = "MatchingRules"
  /\ BagIn(c, net)
  /\ c.fn \in {"getMatchingRules", "getActiveMatchingRule"}
  /\ net' = joinNet(net, c, fetchResult(c.fn, outcome))
  /\ ui' = joinUi(ui, c, fetchResult(c.fn, outcome))
  /\ last' = Call("MatchingRules.loadRules.settle", c.fn, outcome,
                  [kind |-> "found", call |-> c, ui |-> ui], fetchResult(c.fn, outcome), 0)
  /\ UNCHANGED <<storage, api, now, route, held>>

\* handleSaveRule up to its first await: const auth = getAuth();
\* if (!auth) return. The button is disabled while saving.
handleSaveRule ==
  /\ route = "MatchingRules"
  /\ ~ui.saving
  /\ BagCardinality(net) < MaxInFlight
  /\ storage' = getAuthStorage(storage, now)
  /\ api' = getAuthApis(storage, api, now)
  /\ IF Truthy(getAuthOutcome(storage, now).ret)
       THEN /\ ui' = [ui EXCEPT !.saving = TRUE, !.error = "", !.success = ""]
            /\ net' = startNet(net, Awaited("createMatchingRule",
                                 FetchRequest("attribution/rules",
                                              TokenOf(getAuthOutcome(storage, now).ret), now),
                                 "MatchingRules",
                                 [then |-> "save",
                                  token |-> TokenOf(getAuthOutcome(storage, now).ret),
                                  rule |-> ui.formData]))
       ELSE UNCHANGED <<ui, net>>
  /\ last' = Call("MatchingRules.handleSaveRule", "", Undefined, Found(storage, api),
                  getAuthOutcome(storage, now).ret, 0)
  /\ UNCHANGED <<now, route, held>>

\* A save that activates whatever became of the create.
afterCreate_ActivatesAnyway(r) == [activates |-> TRUE, id |-> IF r.kind = "throw" THEN "r1" ELSE r.id]

\* const newRule = await createMatchingRule(...): when it throws the catch
\* block is next, else activateMatchingRule(auth.token, newRule.id).
afterCreate(r) ==
  IF r.kind = "throw" THEN [activates |-> FALSE, id |-> ""] ELSE [activates |-> TRUE, id |-> r.id]

\* The await of createMatchingRule settles.
createSettle(c, outcome) ==
  /\ route = "MatchingRules"
  /\ BagIn(c, net)
  /\ c.fn = "createMatchingRule"
  /\ IF afterCreate(methodResult(outcome)).activates
       THEN /\ net' = startNet(settleNet(net, c),
                        Awaited("activateMatchingRule",
                                FetchRequest("attribution/rules/activate", c.params.token, now),
                                "MatchingRules",
                                [then |-> "save", token |-> c.params.token,
                                 id |-> afterCreate(methodResult(outcome)).id]))
            /\ ui' = ui
       ELSE /\ net' = settleNet(net, c)
            /\ ui' = [ui EXCEPT !.error = "Failed to save rule", !.saving = FALSE]
  /\ last' = Call("MatchingRules.create.settle", c.fn, outcome,
                  [kind |-> "found", call |-> c, ui |-> ui], methodResult(outcome), 0)
  /\ UNCHANGED <<storage, api, now, route, held>>

\* handleActivateRule(rule.id) of a rule of the list, up to its await.
handleActivateRule(ruleId) ==
  /\ route = "MatchingRules"
  /\ ~ui.saving
  /\ ruleId \in ui.rules.ids
  /\ BagCardinality(net) < MaxInFlight
  /\ storage' = getAuthStorage(storage, now)
  /\ api' = getAuthApis(storage, api, now)
  /\ IF Truthy(getAuthOutcome(storage, now).ret)
       THEN /\ ui' = [ui EXCEPT !.saving = TRUE, !.error = "", !.success = ""]
            /\ net' = startNet(net, Awaited("activateMatchingRule",
                                 FetchRequest("attribution/rules/activate",
                                              TokenOf(getAuthOutcome(storage, now).ret), now),
                                 "MatchingRules",
                                 [then |-> "activate",
                                  token |-> TokenOf(getAuthOutcome(storage, now).ret),
                                  id |-> ruleId]))
       ELSE UNCHANGED <<ui, net>>
  /\ last' = Call("MatchingRules.handleActivateRule", "", Str(ruleId), Found(storage, api),
                  getAuthOutcome(storage, now).ret, 0)
  /\ UNCHANGED <<now, route, held>>

\* The await of activateMatchingRule settles: setSuccess and await
\* loadRules(auth.token), or the catch block and setSaving(false).
activateSettle(c, outcome) ==
  /\ route = "MatchingRules"
  /\ BagIn(c, net)
  /\ c.fn = "activateMatchingRule"
  /\ IF methodResult(outcome).kind = "throw"
       THEN /\ net' = settleNet(net, c)
            /\ ui' = [ui EXCEPT !.error = IF c.params.then = "save" THEN "Failed to save rule"
                                                                    ELSE "Failed to activate rule",
                                !.saving = FALSE]
       ELSE /\ net' = loadRulesNet(settleNet(net, c), c.params.token, now, c.params.then)
            /\ ui' = Loading([ui EXCEPT !.success =
                               IF c.params.then = "save"
                                 THEN "Rule saved and activated successfully!"
                                 ELSE "Rule activated successfully!"])
  /\ last' = Call("MatchingRules.activate.settle", c.fn, outcome,
                  [kind |-> "found", call |-> c, ui |-> ui], methodResult(outcome), 0)
  /\ UNCHANGED <<storage, api, now, route, held>>

\* MatchingRules has mounted with a session: the loadRules of its effect is
\* awaited.
InitRules ==
  /\ \E data \in {d \in DatedLogins : d.token = Str("tA")} :
       /\ storage = saveAuthStorage(NoStorage, data)
       /\ net = loadRulesNet(EmptyBag, data.token, 0, "mount")
  /\ api = [f \in Families |-> Null]
  /\ now = 0
  /\ route = "MatchingRules"
  /\ last = Call("MatchingRules.mount", "", Undefined, FoundNothing, Void, 0)
  /\ held = Null
  /\ ui = InitialRules

NextRules ==
  \/ handleSaveRule
  \/ \E id \in RuleIds : handleActivateRule(id)
  \/ \E c \in BagToSet(net) : \E outcome \in FetchOutcomes(c.fn) : createSettle(c, outcome)
  \/ \E c \in BagToSet(net) : \E outcome \in FetchOutcomes(c.fn) : activateSettle(c, outcome)
  \/ \E c \in BagToSet(net) : \E outcome \in FetchOutcomes(c.fn) : loadRulesSettle(c, outcome)
  \/ Tick

SpecRules == InitRules /\ [][NextRules]_vars

(***************************************************************************)
(* Properties                                                              *)
(***************************************************************************)
\* The error each family's get throws when it has no singleton and no token.
ErrorOf(f) ==
  CASE f = "Template" -> Throw("Template API not initialized")
    [] f = "User" -> Throw("User API not initialized")
    [] f = "Job" -> Throw("Job API not initialized")
    [] f = "Alert" -> Throw("Alert API not initialized")

\* The text is one that JSON.stringify of a session produced.
IsRecordText(data) == data.kind = "string" /\ data.form = "object"

\* The text is a session record whose expires_at is a timestamp.
IsWellFormed(data) ==
  IsRecordText(data) /\ data.expires_at.kind = "string" /\ "ms" \in DOMAIN data.expires_at

Bearer(tok) == "Bearer " \o tok

\* C1: after clearAuth returns, from whatever state it was called in, the
\* session key is gone, all four singletons are null, and a get without a token
\* fails in every family with that family's 'not initialized' error.
C1_LogoutClearsAll ==
  last.name = "clearAuth" =>
    /\ AUTH_KEY \notin DOMAIN storage
    /\ \A f \in Families :
         api[f] = Null /\ getApiResult(api, f, Undefined) = ErrorOf(f)

\* C1 witness: clearAuth has run in a state with a stored record and all four
\* singletons live.
C1_Witness ==
  /\ last.name = "clearAuth"
  /\ IsRecordText(last.found.data)
  /\ \A f \in Families : last.found.api[f] # Null

\* C2: getAuth on a record whose expires_at is strictly before now returns null,
\* removes the record and nulls every singleton in the same call, after which
\* getAuth returns null again and every get without a token fails; a record whose
\* expires_at is now or later is returned, and storage and singletons stay as
\* they were.
C2_ExpiryTeardown ==
  (last.name = "getAuth" /\ IsWellFormed(last.found.data)) =>
    IF last.found.data.expires_at.ms < now
      THEN /\ last.ret = Null
           /\ AUTH_KEY \notin DOMAIN storage
           /\ \A f \in Families :
                api[f] = Null /\ getApiResult(api, f, Undefined) = ErrorOf(f)
           /\ getAuthOutcome(storage, now).ret = Null
      ELSE /\ last.ret.kind = "object"
           /\ last.ret.token = last.found.data.token
           /\ last.ret.user = last.found.data.user
           /\ last.ret.permissions = last.found.data.permissions
           /\ last.ret.expires_at = last.found.data.expires_at
           /\ getItem(storage, AUTH_KEY) = last.found.data
           /\ api = last.found.api

\* C2 witness: getAuth has met an expired record while a singleton was live.
C2_Witness ==
  /\ last.name = "getAuth"
  /\ IsWellFormed(last.found.data)
  /\ last.found.data.expires_at.ms < now
  /\ \E f \in Families : last.found.api[f] # Null


\* The token of the record under the session key.
StoredToken == getItem(storage, AUTH_KEY).token.s

\* C3: whenever a session record is stored, every non-null singleton carries the
\* stored session's token, also after a second login without a logout.
C3_SingletonsFollowSession ==
  IsRecordText(getItem(storage, AUTH_KEY)) =>
    \A f \in Families :
      api[f] # Null => api[f].client.Authorization = Bearer(StoredToken)

\* C4 as stated: a non-null singleton implies that a session record is stored.
C4_ClientImpliesSession ==
  \A f \in Families : api[f] # Null => AUTH_KEY \in DOMAIN storage

\* C4 amended: no client outlives its session. A step that removes the stored
\* record leaves every singleton null, and a singleton is live without a stored
\* record only from an init or a constructing get made while none is stored.
C4_NoClientOutlivesSession ==
  [][ \A f \in Families :
        (api'[f] # Null /\ AUTH_KEY \notin DOMAIN storage') =>
          /\ AUTH_KEY \notin DOMAIN storage
          /\ \/ api'[f] = api[f]
             \/ /\ last'.name \in {"initApi", "getApi"}
                /\ last'.fam = f
                /\ last'.news = 1 ]_vars

\* C4 witness: the session of a live client has been torn down by the expiry
\* check of getAuth.
C4_Witness ==
  /\ last.name = "getAuth"
  /\ IsRecordText(last.found.data)
  /\ \E f \in Families : last.found.api[f] # Null
  /\ AUTH_KEY \notin DOMAIN storage
  /\ \A f \in Families : api[f] = Null

\* The stored session has expired at time t and tok is its token.
ExpiredSessionToken(auth, t) ==
  LET data == getItem(storage, AUTH_KEY)
  IN /\ IsWellFormed(data)
     /\ data.expires_at.ms < t
     /\ auth = Bearer(data.token.s)

\* C5: no page starts a request that carries the bearer token of a session
\* whose expires_at has passed.
C5_NoRequestWithExpiredToken ==
  last.ret.kind = "request" => ~ExpiredSessionToken(last.ret.Authorization, last.ret.at)

\* C6 as stated: get returns the existing singleton; with none, a supplied token
\* makes it construct, cache and return a client bound to that token; with none
\* and no token it throws 'not initialized' and changes nothing.
C6_GetContract ==
  [][ last'.name = "getApi" =>
        LET f == last'.fam
            token == last'.arg
        IN IF api[f] # Null
             THEN last'.ret = api[f] /\ api'[f] = api[f] /\ last'.news = 0
           ELSE IF token.kind # "undefined"
             THEN /\ api'[f].kind = "client"
                  /\ api'[f].client.Authorization = Bearer(token.s)
                  /\ last'.ret = api'[f]
                  /\ last'.news = 1
           ELSE /\ last'.ret = ErrorOf(f)
                /\ api'[f] = Null
                /\ storage' = storage ]_vars

\* C6 amended: as C6, where the token that makes get construct is a non-empty
\* string; with none and an empty string for a token, get throws 'not
\* initialized' as it does with no token.
C6_GetContractNonEmpty ==
  [][ last'.name = "getApi" =>
        LET f == last'.fam
            token == last'.arg
        IN IF api[f] # Null
             THEN last'.ret = api[f] /\ api'[f] = api[f] /\ last'.news = 0
           ELSE IF token.kind = "string" /\ token.s # ""
             THEN /\ api'[f].kind = "client"
                  /\ api'[f].client.Authorization = Bearer(token.s)
                  /\ last'.ret = api'[f]
                  /\ last'.news = 1
           ELSE /\ last'.ret = ErrorOf(f)
                /\ api'[f] = Null
                /\ storage' = storage ]_vars

\* C6 witness: a get with a token has constructed and returned the singleton.
C6_Witness ==
  /\ last.name = "getApi"
  /\ last.news = 1
  /\ last.ret = api[last.fam]
  /\ last.ret.client.Authorization = Bearer(last.arg.s)

\* C7: an init replaces the singleton whatever it was: after it the singleton is
\* a newly constructed client bound to the token of that init; until the next
\* init, clear or teardown a get returns that client whatever token it is
\* handed, and a request through the returned client carries that client's
\* Authorization header.
C7_InitReplaces ==
  [][ /\ last'.name = "initApi" =>
           /\ api'[last'.fam].kind = "client"
           /\ api'[last'.fam].client.Authorization = Bearer(last'.arg.s)
           /\ last'.news = 1
      /\ (last.name = "initApi" /\ last'.name = "getApi" /\ last'.fam = last.fam) =>
           /\ last'.ret.kind = "client"
           /\ last'.ret.client.Authorization = Bearer(last.arg.s)
      /\ \A f \in Families :
           (api[f] # Null /\ api'[f] # api[f]) =>
             \/ last'.name \in {"initApi", "clearApi"} /\ last'.fam = f
             \/ last'.name \in {"clearAuth", "getAuth"}
      /\ last'.name = "request" =>
           /\ last.ret.kind = "client"
           /\ last'.ret.Authorization = last.ret.client.Authorization ]_vars

\* C7 witness: an init with tB has replaced a singleton bound to tA.
C7_Witness ==
  /\ last.name = "initApi"
  /\ last.arg = Str("tB")
  /\ last.found.singleton # Null
  /\ last.found.singleton.client.Authorization = "Bearer tA"
  /\ api[last.fam].client.Authorization = "Bearer tB"

\* C8: a get on a family that has a singleton constructs nothing and returns
\* that singleton; so get(tokenA) on an empty family followed by get() returns
\* the instance the first call constructed.
C8_GetIsIdentityStable ==
  [][ /\ (last'.name = "getApi" /\ api[last'.fam] # Null) =>
           /\ last'.news = 0
           /\ last'.ret = api[last'.fam]
           /\ api'[last'.fam] = api[last'.fam]
      /\ ( /\ last.name = "getApi" /\ last.news = 1
           /\ last'.name = "getApi" /\ last'.fam = last.fam
           /\ last'.arg = Undefined ) =>
           /\ last'.news = 0
           /\ last'.ret = last.ret ]_vars

\* C8 witness: a get without a token has returned the singleton that exists.
C8_Witness ==
  /\ last.name = "getApi"
  /\ last.arg = Undefined
  /\ last.news = 0
  /\ last.ret.kind = "client"
  /\ last.ret = api[last.fam]

\* C9: right after saveAuth(S) with S.expires_at in the future, getAuth returns
\* a record equal to S in token, user, permissions and expires_at and tears
\* nothing down, whatever was stored before; and the storage never holds more
\* than the one record under the session key.
C9_SaveLoadRoundTrip ==
  /\ DOMAIN storage \subseteq {AUTH_KEY}
  /\ ( /\ last.name = "saveAuth"
       /\ last.arg.expires_at.kind = "string"
       /\ "ms" \in DOMAIN last.arg.expires_at
       /\ last.arg.expires_at.ms > now ) =>
       /\ ~getAuthOutcome(storage, now).clears
       /\ getAuthOutcome(storage, now).ret.kind = "object"
       /\ getAuthOutcome(storage, now).ret.token = last.arg.token
       /\ getAuthOutcome(storage, now).ret.user = last.arg.user
       /\ getAuthOutcome(storage, now).ret.permissions = last.arg.permissions
       /\ getAuthOutcome(storage, now).ret.expires_at = last.arg.expires_at

\* C9 witness: a session that expires in the future has been saved over the
\* record of another session.
C9_Witness ==
  /\ last.name = "saveAuth"
  /\ last.arg.token = Str("tB")
  /\ last.arg.expires_at = IsoStr(1)
  /\ now < 1
  /\ IsRecordText(last.found.data)
  /\ last.found.data.token = Str("tA")

\* C10: whatever is stored under the session key that is no well-formed session
\* record, getAuth returns null as if nothing were stored.
C10_MalformedIsNoSession ==
  (last.name = "getAuth" /\ ~IsWellFormed(last.found.data)) => last.ret = Null

\* A session is stored: there is an item under the session key.
SessionStored(st) == AUTH_KEY \in DOMAIN st

\* The request of a call has settled with an error.
SettledWithError(l, fn) ==
  l.name = "settle" /\ l.fam = fn /\ l.arg.kind = "error"

\* C11: a failed login is mapped three ways. A response with status 401 gives
\* the error 'Invalid email or password' whatever its body says; any other error
\* response whose body has a non-empty message gives an error with that message;
\* every other failure is rethrown as the error object that was caught. No
\* failure stores a session or touches a singleton.
C11_LoginFailureMapping ==
  [][ SettledWithError(last', "login") =>
        /\ storage' = storage
        /\ api' = api
        /\ IF last'.arg.response.kind = "object" /\ last'.arg.response.status = 401
             THEN last'.ret = Throw("Invalid email or password")
           ELSE IF /\ last'.arg.response.kind = "object"
                   /\ last'.arg.response.message.kind = "string"
                   /\ last'.arg.response.message.s # ""
             THEN last'.ret = Throw(last'.arg.response.message.s)
           ELSE last'.ret = Rethrow(last'.arg) ]_vars

\* C11 witness: a login has failed with a 401 whose body carries a message,
\* while a session was stored and a singleton was live.
C11_Witness ==
  /\ SettledWithError(last, "login")
  /\ last.arg = ResponseError(401, Str("quota exceeded"))
  /\ SessionStored(storage)
  /\ api["Job"] # Null

\* C12: verifyToken returns true when its request succeeds, false exactly when
\* the response has status 401, and rethrows every other failure; neither
\* starting it nor its settling changes the stored session or a singleton.
C12_VerifyTokenContract ==
  [][ /\ (last'.name = "settle" /\ last'.fam = "verifyToken") =>
           /\ storage' = storage
           /\ api' = api
           /\ IF last'.arg.kind = "response" THEN last'.ret = Bool(TRUE)
              ELSE IF last'.arg.response.kind = "object" /\ last'.arg.response.status = 401
                THEN last'.ret = Bool(FALSE)
              ELSE last'.ret = Rethrow(last'.arg)
      /\ last'.name = "verifyToken" => (storage' = storage /\ api' = api) ]_vars

\* C12 witness: verifyToken has met a response with another status than 401
\* while a session was stored and a singleton was live.
C12_Witness ==
  /\ SettledWithError(last, "verifyToken")
  /\ last.arg = ResponseError(500, Undefined)
  /\ last.ret = Rethrow(last.arg)
  /\ SessionStored(storage)
  /\ api["Job"] # Null

\* C13: a session comes to be stored only by saveAuth, and comes to be no longer
\* stored only by clearAuth, called as such or from getAuth when it finds the
\* record expired; no other operation changes whether a session is stored.
C13_SessionTransitions ==
  [][ (SessionStored(storage') # SessionStored(storage)) =>
        IF SessionStored(storage')
          THEN last'.name = "saveAuth"
          ELSE \/ last'.name = "clearAuth"
               \/ /\ last'.name = "getAuth"
                  /\ IsWellFormed(last'.found.data)
                  /\ last'.found.data.expires_at.ms < now ]_vars

\* C13 witness: getAuth has found the record expired and removed it while a
\* request was in flight.
C13_Witness ==
  /\ last.name = "getAuth"
  /\ IsWellFormed(last.found.data)
  /\ last.found.data.expires_at.ms < now
  /\ ~SessionStored(storage)
  /\ net # EmptyBag

\* C14: the token of a client is fixed when it is constructed. saveAuth changes
\* no singleton; a change of the stored record leaves each singleton what it was
\* or null; a client that a caller holds is not changed by a later saveAuth,
\* init, clear or teardown, and a request through it carries the token it was
\* constructed with.
C14_TokenFixedAtConstruction ==
  [][ /\ last'.name = "saveAuth" => api' = api
      /\ storage' # storage => \A f \in Families : api'[f] \in {api[f], Null}
      /\ last'.name \in {"saveAuth", "initApi", "clearApi", "clearAuth", "getAuth"} =>
           held' = held
      /\ last'.name = "method" =>
           /\ held' = held
           /\ last'.ret.Authorization = held.client.Authorization ]_vars

\* C14 witness: a caller holds a client constructed with tA; after a login with
\* tB and an init with tB a request through the held client carries tA.
C14_Witness ==
  /\ last.name = "method"
  /\ held # Null
  /\ held.client.Authorization = "Bearer tA"
  /\ last.ret.Authorization = "Bearer tA"
  /\ IsRecordText(getItem(storage, AUTH_KEY))
  /\ getItem(storage, AUTH_KEY).token = Str("tB")
  /\ api[held.fam] # Null
  /\ api[held.fam].client.Authorization = "Bearer tB"

\* C15: on a page that uses a resource singleton, when getAuth() returns a
\* session at mount, the init of the family runs before the first get without
\* a token: the loads of the page, at mount and after, get a client and never
\* the 'not initialized' error, and the client carries the token of the stored
\* session, not that of an earlier one.
C15_InitBeforeGet ==
  /\ (last.name \in {"JobList.mount", "JobList.loadJobs"} /\ route = "JobList") =>
       /\ last.ret.kind = "request"
       /\ IsRecordText(getItem(storage, AUTH_KEY))
       /\ last.ret.Authorization = Bearer(StoredToken)
       /\ api["Job"] # Null
  /\ (last.name = "TemplateEdit.mount" /\ route = "TemplateEdit") =>
       /\ last.ret.kind = "request"
       /\ IsRecordText(getItem(storage, AUTH_KEY))
       /\ last.ret.Authorization = Bearer(StoredToken)
       /\ last.news = 1

\* C15 witness: JobList has mounted under the session of tB while the
\* singleton it found was the client of the earlier session of tA.
C15_Witness ==
  /\ last.name = "JobList.mount"
  /\ route = "JobList"
  /\ last.found.api["Job"] # Null
  /\ last.found.api["Job"].client.Authorization = "Bearer tA"
  /\ last.ret.kind = "request"
  /\ last.ret.Authorization = "Bearer tB"

\* The await of a load of the mounted page has settled.
PageSettled(l) == l.name \in {"JobList.settle", "Dashboard.settle", "TemplateEdit.settle"}

\* C19: a response that arrives after the teardown of the session its request
\* was started under is discarded: the state of the page that is mounted stays
\* what it was. (A page starts a request only while a session is stored, and
\* none can be saved while the page is mounted, so the teardown has come in
\* between exactly when no session is stored as the response arrives.)
C19_LateResponseDiscarded ==
  (PageSettled(last) /\ last.arg.kind = "response" /\ ~SessionStored(storage)) =>
    ui = last.found.ui

\* C20: the list state of JobList after the response to a load is the payload
\* of that response, whatever else is in flight and whichever request was
\* issued first, and a failed load leaves the list as it was; so with two loads
\* in flight the list is that of the response that came last.
C20_LastCompletionWins ==
  [][ last'.name = "JobList.settle" =>
        /\ last'.arg.kind = "response" => ui'.data = ResponseTo(last'.found.call)
        /\ last'.arg.kind = "error" => ui'.data = ui.data ]_vars

\* C20 witness: JobList shows page 2, nothing is in flight any more, and the
\* list is that of the load of page 1, whose response came after the response
\* to the later load of page 2 had been written.
C20_Witness ==
  /\ last.name = "JobList.settle"
  /\ last.arg.kind = "response"
  /\ net = EmptyBag
  /\ ui.page = 2
  /\ last.found.call.params = 1
  /\ ui.data = ResponseTo(last.found.call)
  /\ last.found.ui.data # Null
  /\ last.found.ui.data.params = 2

\* C16: a 401 to a method of a resource client or to a standalone fetch is
\* thrown to the caller as the error that was caught, and it leaves the stored
\* session and every singleton as they were.
C16_UnauthorizedPropagates ==
  [][ ( /\ last'.name = "settle"
        /\ last'.fam \in {"method", "getDashboardSummary"}
        /\ last'.arg.kind = "error"
        /\ last'.arg.response.kind = "object"
        /\ last'.arg.response.status = 401 ) =>
        /\ last'.ret = Rethrow(last'.arg)
        /\ storage' = storage
        /\ api' = api ]_vars

\* C16 witness: a method of a resource client has met a 401 while a session was
\* stored and its singleton was live.
C16_Witness ==
  /\ SettledWithError(last, "method")
  /\ last.arg = ResponseError(401, Undefined)
  /\ SessionStored(storage)
  /\ api["Job"] # Null

\* The functions of the core that send a request.
Senders == {"login", "verifyToken", "getDashboardSummary", "method"}

\* C17: a call of login, verifyToken, a client method or a standalone fetch
\* starts exactly one request, also when the same request is already in flight;
\* the settling of a request, failed or not, ends that one request and starts
\* none; nothing else starts or ends a request.
C17_OneRequestPerCall ==
  [][ /\ last'.name \in Senders =>
           /\ BagCardinality(net') = BagCardinality(net) + 1
           /\ \E c \in BagToSet(net') :
                /\ c.fn = last'.name
                /\ c.Authorization = last'.ret.Authorization
                /\ net' = net (+) SetToBag({c})
      /\ last'.name = "settle" =>
           /\ BagCardinality(net') = BagCardinality(net) - 1
           /\ net (-) SetToBag({last'.found.call}) = net'
      /\ (last'.name \notin Senders \cup {"settle"}) => net' = net ]_vars

\* C17 witness: a call has started its request while the same request of an
\* earlier call was still in flight, and both are in flight.
C17_Witness ==
  /\ last.name \in Senders
  /\ \E c \in BagToSet(net) :
       c.fn = last.name /\ c.Authorization = last.ret.Authorization /\ CopiesIn(c, net) = 2

\* C18: clearAuth is idempotent. It returns without an error; the state it
\* leaves is one that a second clearAuth leaves as it is; and with nothing
\* stored and every singleton null it changes nothing.
C18_ClearAuthIdempotent ==
  last.name = "clearAuth" =>
    /\ last.ret = Void
    /\ clearAuthStorage(storage) = storage
    /\ clearAuthApis(api) = api
    /\ (last.found.data = Null /\ \A f \in Families : last.found.api[f] = Null) =>
         (storage = NoStorage /\ api = last.found.api)

\* C18 witness: clearAuth has run with nothing stored and every singleton null.
C18_Witness ==
  /\ last.name = "clearAuth"
  /\ last.found.data = Null
  /\ \A f \in Families : last.found.api[f] = Null

\* C22 as stated: whenever getAuth returns null, every singleton is null when
\* it returns.
C22_NullMeansNoClients ==
  (last.name = "getAuth" /\ last.ret = Null) => \A f \in Families : api[f] = Null

\* C22 amended: when getAuth returns null for a record it found expired, every
\* singleton is null when it returns; when it returns null because nothing is
\* stored or the stored text cannot be parsed, it leaves the text and every
\* singleton as they were.
C22_NullByExpiryMeansNoClients ==
  (last.name = "getAuth" /\ last.ret = Null) =>
    IF IsWellFormed(last.found.data) /\ last.found.data.expires_at.ms < now
      THEN \A f \in Families : api[f] = Null
      ELSE api = last.found.api /\ getItem(storage, AUTH_KEY) = last.found.data

\* C22 witness: getAuth has returned null for a text that cannot be parsed,
\* while a singleton was live.
C22_Witness ==
  /\ last.name = "getAuth"
  /\ last.ret = Null
  /\ last.found.data.kind = "string"
  /\ last.found.data.form = "garbage"
  /\ \E f \in Families : last.found.api[f] # Null /\ api[f] = last.found.api[f]

\* C23: a get with a token on a family that has a singleton returns that
\* singleton, bound to the token it was constructed with, and constructs
\* nothing; a family that has a singleton comes to another client only by an
\* init, and otherwise only after it has been cleared.
C23_GetIgnoresTokenOnLiveSingleton ==
  [][ /\ (last'.name = "getApi" /\ api[last'.fam] # Null) =>
           /\ last'.ret = api[last'.fam]
           /\ last'.ret.client.Authorization = api[last'.fam].client.Authorization
           /\ last'.news = 0
           /\ api' = api
      /\ \A f \in Families :
           (api[f] # Null /\ api'[f] # Null /\ api'[f] # api[f]) =>
             (last'.name = "initApi" /\ last'.fam = f) ]_vars

\* C23 witness: a get with tB has returned the singleton that was constructed
\* with tA.
C23_Witness ==
  /\ last.name = "getApi"
  /\ last.arg = Str("tB")
  /\ last.found.singleton # Null
  /\ last.found.singleton.client.Authorization = "Bearer tA"
  /\ last.ret = last.found.singleton
  /\ api[last.fam] = last.found.singleton
  /\ last.news = 0

\* sessionStorage as the last call found it.
FoundStorage ==
  IF last.found.data = Null THEN NoStorage ELSE [k \in {AUTH_KEY} |-> last.found.data]

\* The pages whose mount is modelled.
Mounts == {"JobList.mount", "AlertList.mount", "Dashboard.mount", "TemplateEdit.mount"}

\* C24: when a protected page mounts and getAuth() returns null, the page
\* navigates to "/" and none of its effects, the separate load effect of
\* JobList included, starts a request during that mount.
C24_NoRequestOnMountWithoutSession ==
  (last.name \in Mounts /\ getAuthOutcome(FoundStorage, now).ret = Null) =>
    /\ route = "Login"
    /\ last.ret.kind # "request"
    /\ net = EmptyBag

\* C24 witness: JobList has mounted on an expired session while the job
\* singleton was live; the load effect ran into "not initialized".
C24_Witness ==
  /\ last.name = "JobList.mount"
  /\ getAuthOutcome(FoundStorage, now).ret = Null
  /\ last.found.api["Job"] # Null
  /\ route = "Login"
  /\ last.ret.kind = "throw"

\* The list requests of the mounted page that are in flight.
ListRequests == {c \in BagToSet(net) : c.fn = "listJobs"}

\* C27 as stated: on JobList, loading is true exactly while a list request of
\* the page is in flight.
C27_LoadingIffInFlight ==
  route = "JobList" => (ui.loading <=> ListRequests # {})

\* The texts of the amount field that are empty, no number, zero or negative.
BadAmounts == { <<>>, <<"a", "b", "c">>, <<"0">>, <<"-", "3">> }

\* The grantCredits requests in flight.
GrantRequests(n) == {c \in BagToSet(n) : c.fn = "grantCredits"}

\* C28: handleGrantCredits sends a grantCredits request only when the entered
\* amount parses to an integer of at least 1, and sends that integer; for an
\* empty, non-numeric, zero or negative amount it shows the error toast, sends
\* nothing and leaves submitting false; when the request settles, with success
\* or failure, submitting is false again.
C28_GrantCreditsGuard ==
  [][ /\ (net' # net /\ GrantRequests(net') # {} /\ BagCardinality(net') > BagCardinality(net)
          /\ last'.name = "handleGrantCredits") =>
           /\ ~ParseInt(ui.creditsAmount).nan
           /\ ParseInt(ui.creditsAmount).n >= 1
           /\ net' = net (+) SetToBag({CHOOSE c \in GrantRequests(net') : TRUE})
           /\ \A c \in GrantRequests(net') : c.params.amount = ParseInt(ui.creditsAmount)
           /\ ui'.submitting
      /\ (GrantRequests(net') # GrantRequests(net) /\ GrantRequests(net') # {}) =>
           last'.name = "handleGrantCredits"
      /\ (last'.name = "handleGrantCredits" /\ ui.creditsAmount \in BadAmounts) =>
           /\ ui'.toast = Toast("Amount must be a positive number", "error")
           /\ net' = net
           /\ ~ui'.submitting
      /\ last'.name = "grantCredits.settle" =>
           /\ ui.submitting
           /\ ~ui'.submitting
           /\ GrantRequests(net') = {} ]_vars

\* C28 witness: a request for 7 credits has failed and submitting is false
\* again, with the failure toast shown.
C28_Witness ==
  /\ last.name = "grantCredits.settle"
  /\ last.arg.kind = "error"
  /\ last.found.call.params.amount = Number(7)
  /\ last.found.ui.submitting
  /\ ~ui.submitting
  /\ ui.toast = Toast("Failed to grant credits", "error")

\* C25 as stated: on AlertList the selected ids are, in every state, ids of
\* alerts that the list shows.
C25_SelectionWithinList ==
  route = "AlertList" => ui.selectedAlerts \subseteq ui.alerts

\* C26 as stated: on AlertList the page is at least 1 and at most
\* max(1, totalPages) for the total that was loaded last.
C26_PageWithinRange ==
  route = "AlertList" => (1 <= ui.page /\ ui.page <= IF totalPages(ui) > 1 THEN totalPages(ui) ELSE 1)

\* The value of the fetch fn is what the page holds for it.
StoredFor(fn, v) == IF fn = "getMatchingRules" THEN ui.rules = v ELSE ui.activeRule = v

OtherFetch(fn) == IF fn = "getMatchingRules" THEN "getActiveMatchingRule" ELSE "getMatchingRules"

\* C21 as stated: when one of the two fetches of loadRules fails and the other
\* succeeds, the result of the one that succeeded is stored in the page state.
C21_FulfilledFetchIsStored ==
  last.name = "MatchingRules.loadRules.settle" =>
    /\ (last.ret.kind = "throw" /\ last.found.call.params.join.kind = "fulfilled") =>
         StoredFor(OtherFetch(last.fam), last.found.call.params.join.value)
    /\ (last.ret.kind # "throw" /\ last.found.call.params.join.kind = "rejected") =>
         StoredFor(last.fam, last.ret)

\* The activate requests of handleSaveRule in flight, and the calls a handler
\* that has set saving still waits for.
SaveActivates(n) ==
  {c \in BagToSet(n) : c.fn = "activateMatchingRule" /\ c.params.then = "save"}

HandlerAwaits(n) ==
  {c \in BagToSet(n) :
     \/ c.fn \in {"createMatchingRule", "activateMatchingRule"}
     \/ c.params.then # "mount" /\ c.params.join.kind # "rejected"}

SavedMessage == "Rule saved and activated successfully!"

\* C29: in handleSaveRule the activate request is sent only when the create
\* request has succeeded and carries the id of the rule the create returned;
\* the success message is set only when the activate of a save succeeded; a
\* failed create is followed by no activate request; saving is false again
\* when the handler ends (a failed create, a failed activate, the end of the
\* awaited loadRules) and is true only while the handler awaits something;
\* without a valid session the handler sends nothing.
C29_SaveRuleOrder ==
  [][ /\ \A c \in SaveActivates(net') :
           CopiesIn(c, net') > CopiesIn(c, net) =>
             /\ last'.name = "MatchingRules.create.settle"
             /\ last'.arg.kind = "response"
             /\ c.params.id = last'.arg.data.id
      /\ (ui'.success = SavedMessage /\ ui.success # SavedMessage) =>
           /\ last'.name = "MatchingRules.activate.settle"
           /\ last'.arg.kind = "response"
           /\ last'.found.call.params.then = "save"
      /\ (last'.name = "MatchingRules.create.settle" /\ last'.arg.kind = "error") =>
           /\ net' = net (-) SetToBag({last'.found.call})
           /\ ~ui'.saving
           /\ ui'.success # SavedMessage
      /\ (last'.name = "MatchingRules.activate.settle" /\ last'.arg.kind = "error") =>
           /\ ~ui'.saving
           /\ ui'.success # SavedMessage
      /\ ui'.saving => HandlerAwaits(net') # {}
      /\ (last'.name = "MatchingRules.handleSaveRule"
          /\ getAuthOutcome(storage, now).ret = Null) =>
           /\ net' = net
           /\ ui' = ui ]_vars

\* C29 witness: the activate request for the rule r2 that the create returned
\* has succeeded: the success message is set and the handler awaits loadRules.
C29_Witness ==
  /\ last.name = "MatchingRules.activate.settle"
  /\ last.arg.kind = "response"
  /\ last.found.call.params.then = "save"
  /\ last.found.call.params.id = "r2"
  /\ ui.success = SavedMessage
  /\ ui.saving

====
